---- MODULE Spec2Model ----
(***************************************************************************)
(* Legal Entity & Sector Code Management (src/app.py).                     *)
(*                                                                         *)
(* The application is one Streamlit script over an SQLite file.  Every     *)
(* operator interaction runs the script once from the top: the tables are  *)
(* created if missing, insert_sample_data() runs, and then the selected    *)
(* page draws its tabs and runs the handler of the pressed button.  A      *)
(* handler whose write succeeded calls st.rerun(), which runs the script   *)
(* once more.  An action of this model is one interaction, the rerun       *)
(* included.                                                               *)
(*                                                                         *)
(* Text values (abn, entity_name) are tuples of code points, so that       *)
(* len(), the comparison used by sort_values and the digits of an ABN      *)
(* are what they are in the program.  None is a value that is no text.     *)
(***************************************************************************)
EXTENDS Integers, Sequences, FiniteSets, TLC

VARIABLES legal_entities,      \* rows of table legal_entities, in rowid order
          reporting_groups,    \* reporting_group_code of each row of reporting_groups
          sector_codes,        \* sector_code of each row of sector_codes
          sector_abn_mapping,  \* rows of table sector_abn_mapping
          last,                \* the last interaction: what was asked, on which abn, how the run ended
          tree_out,            \* the lines st.text drew in the Hierarchy Tree View of the last run
          report_out,          \* the rows of the last Hierarchy Breakdown / Detailed Entity report
          n_ops,               \* number of accepted writes so far (bounded by MaxOps)
          session              \* per operator: the script run that has read its snapshot
                               \* and not yet written (only with two operators)

vars == <<legal_entities, reporting_groups, sector_codes, sector_abn_mapping,
          last, tree_out, report_out, n_ops, session>>

-----------------------------------------------------------------------------
(* Bounds of the exploration *)

\* accepted writes (add, edit, delete) in one behaviour
MaxOps == 2
\* depth at which the interpreter gives up a recursion (RecursionError)
RecursionLimit == 5
\* script runs that write (add, edit, delete) in one behaviour of two operators
MaxConcOps == 3

-----------------------------------------------------------------------------
(* Values *)

\* Python None / SQL NULL / pandas missing value
None == <<-1>>

\* the text '910000000dd' of the sample ABNs
Abn(n) == <<57,49,48,48,48,48,48,48,48, 48 + (n \div 10), 48 + (n % 10)>>

\* the selectbox entry "None" of the Parent ABN list
StrNone == <<78,111,110,101>>

Entity(abn, entity_name, parent_abn, entity_type, status) ==
    [abn |-> abn, entity_name |-> entity_name, parent_abn |-> parent_abn,
     entity_type |-> entity_type, status |-> status]

Mapping(mapping_id, reporting_group_code, sector_code, abn) ==
    [mapping_id |-> mapping_id, reporting_group_code |-> reporting_group_code,
     sector_code |-> sector_code, abn |-> abn, is_active |-> 1]

SampleGroups == {"FIN_INT", "FIN_REG", "OPS_MIS"}

SampleSectors == {"F1N01", "T3C02", "O9P88", "R7D55"}

SampleEntities ==
    << \* 'Alpha Holdings Pty Ltd'
       Entity(Abn(1), <<65,108,112,104,97,32,72,111,108,100,105,110,103,115,32,80,116,121,32,76,116,100>>,
              None, "Parent", "Active"),
       \* 'Alpha Finance Pty Ltd'
       Entity(Abn(2), <<65,108,112,104,97,32,70,105,110,97,110,99,101,32,80,116,121,32,76,116,100>>,
              Abn(1), "Subsidiary", "Active"),
       \* 'Alpha Operations JV'
       Entity(Abn(3), <<65,108,112,104,97,32,79,112,101,114,97,116,105,111,110,115,32,74,86>>,
              Abn(1), "JV", "Active"),
       \* 'Alpha Technology Pty Ltd'
       Entity(Abn(4), <<65,108,112,104,97,32,84,101,99,104,110,111,108,111,103,121,32,80,116,121,32,76,116,100>>,
              Abn(1), "Subsidiary", "Active"),
       \* 'Alpha Finance Services Pty Ltd'
       Entity(Abn(5), <<65,108,112,104,97,32,70,105,110,97,110,99,101,32,83,101,114,118,105,99,101,115,32,80,116,121,32,76,116,100>>,
              Abn(2), "Subsidiary", "Active"),
       \* 'Alpha Finance Consulting JV'
       Entity(Abn(6), <<65,108,112,104,97,32,70,105,110,97,110,99,101,32,67,111,110,115,117,108,116,105,110,103,32,74,86>>,
              Abn(2), "JV", "Active"),
       \* 'Alpha Ops Logistics Pty Ltd'
       Entity(Abn(7), <<65,108,112,104,97,32,79,112,115,32,76,111,103,105,115,116,105,99,115,32,80,116,121,32,76,116,100>>,
              Abn(3), "Subsidiary", "Active"),
       \* 'Alpha Ops Support JV'
       Entity(Abn(8), <<65,108,112,104,97,32,79,112,115,32,83,117,112,112,111,114,116,32,74,86>>,
              Abn(3), "JV", "Active"),
       \* 'Alpha Tech Software Pty Ltd'
       Entity(Abn(9), <<65,108,112,104,97,32,84,101,99,104,32,83,111,102,116,119,97,114,101,32,80,116,121,32,76,116,100>>,
              Abn(4), "Subsidiary", "Active"),
       \* 'Alpha Tech Infrastructure JV'
       Entity(Abn(10), <<65,108,112,104,97,32,84,101,99,104,32,73,110,102,114,97,115,116,114,117,99,116,117,114,101,32,74,86>>,
              Abn(4), "JV", "Active"),
       \* 'Alpha Tech R&D Pty Ltd'
       Entity(Abn(11), <<65,108,112,104,97,32,84,101,99,104,32,82,38,68,32,80,116,121,32,76,116,100>>,
              Abn(4), "Subsidiary", "Active") >>

SampleMappings ==
    << Mapping("MAP001", "FIN_INT", "F1N01", Abn(2)),
       Mapping("MAP002", "FIN_REG", "F1N01", Abn(5)),
       Mapping("MAP003", "FIN_INT", "T3C02", Abn(4)),
       Mapping("MAP004", "FIN_REG", "T3C02", Abn(9)),
       Mapping("MAP005", "OPS_MIS", "O9P88", Abn(3)),
       Mapping("MAP006", "FIN_INT", "O9P88", Abn(7)),
       Mapping("MAP007", "FIN_INT", "R7D55", Abn(11)),
       Mapping("MAP008", "FIN_REG", "R7D55", Abn(10)) >>

\* the choices of the Entity Type and Status select boxes
entity_types == <<"Parent", "Subsidiary", "JV", "Branch", "Other">>

statuses == <<"Active", "Inactive", "Pending">>

-----------------------------------------------------------------------------
(* Generic helpers *)

Range(s) == {s[i] : i \in DOMAIN s}

\* pandas isna / notna
isna(v) == v = None

notna(v) == v # None

\* changed: a comparison with None is true for every row
eq_none_matches_all(v, key) == IF isna(key) THEN TRUE ELSE v = key

\* pandas comparison  column == key : a missing value on either side
\* compares False, also against None
eq(v, key) == IF isna(v) \/ isna(key) THEN FALSE ELSE v = key

\* Python's order on text: code point by code point, a prefix first
RECURSIVE StrLess(_, _)
StrLess(a, b) ==
    IF b = <<>> THEN FALSE
    ELSE IF a = <<>> THEN TRUE
    ELSE IF Head(a) # Head(b) THEN Head(a) < Head(b)
    ELSE StrLess(Tail(a), Tail(b))

\* the whole database as one value
DB(le, rg, sc, m) ==
    [legal_entities |-> le, reporting_groups |-> rg, sector_codes |-> sc,
     sector_abn_mapping |-> m]

CurrentDB == DB(legal_entities, reporting_groups, sector_codes, sector_abn_mapping)

SetDB(db) ==
    /\ legal_entities' = db.legal_entities
    /\ reporting_groups' = db.reporting_groups
    /\ sector_codes' = db.sector_codes
    /\ sector_abn_mapping' = db.sector_abn_mapping

-----------------------------------------------------------------------------
(* Store access *)

\* SELECT * FROM legal_entities : the rows in rowid order
load_data(table) == table

\* df['abn'].tolist()
abn_list(df) == [i \in DOMAIN df |-> df[i].abn]

\* INSERT INTO legal_entities through execute_query: TRUE when the row is
\* written, FALSE when the PRIMARY KEY or NOT NULL constraint raises and
\* execute_query reports the database error
insert_ok(table, row) ==
    /\ \A i \in DOMAIN table : table[i].abn # row.abn
    /\ notna(row.entity_name)

\* DELETE FROM legal_entities WHERE abn = ?
delete_record(table, key_value) ==
    SelectSeq(table, LAMBDA r : r.abn # key_value)

\* changed: the UPDATE has no WHERE clause
update_record_no_where(table, key_value, edit_name, edit_type, edit_status) ==
    [i \in DOMAIN table |->
        [table[i] EXCEPT !.entity_name = edit_name,
                         !.entity_type = edit_type,
                         !.status = edit_status]]

\* UPDATE legal_entities SET entity_name, entity_type, status WHERE abn = ?
update_record(table, key_value, edit_name, edit_type, edit_status) ==
    [i \in DOMAIN table |->
        IF table[i].abn = key_value
        THEN [table[i] EXCEPT !.entity_name = edit_name,
                              !.entity_type = edit_type,
                              !.status = edit_status]
        ELSE table[i]]

\* changed: the sample rows are inserted with INSERT OR IGNORE, nothing raises
insert_sample_data_never_raises(db) == FALSE

\* insert_sample_data raises sqlite3.IntegrityError: legal_entities is empty,
\* so the sample rows are inserted, and a reference table already holds one
\* of the sample keys
insert_sample_data_raises(db) ==
    /\ Len(db.legal_entities) = 0
    /\ \/ db.reporting_groups \cap SampleGroups # {}
       \/ db.sector_codes \cap SampleSectors # {}
       \/ \E i \in DOMAIN db.sector_abn_mapping, j \in DOMAIN SampleMappings :
             db.sector_abn_mapping[i].mapping_id = SampleMappings[j].mapping_id

\* insert_sample_data: seeds the four tables when legal_entities is empty;
\* a raise leaves the transaction uncommitted
insert_sample_data(db) ==
    IF Len(db.legal_entities) # 0 \/ insert_sample_data_raises(db) THEN db
    ELSE DB(SampleEntities,
            db.reporting_groups \cup SampleGroups,
            db.sector_codes \cup SampleSectors,
            db.sector_abn_mapping \o SampleMappings)

\* init_database on a missing file: four empty tables
EmptyDB == DB(<<>>, {}, {}, <<>>)

-----------------------------------------------------------------------------
(* Hierarchy Tree View (View Hierarchy tab) *)

\* one line drawn by st.text: the entity and the nesting level of its indent
Line(child, level) == [abn |-> child.abn, level |-> level]

\* stands for the RecursionError that ends a run whose recursion is too deep
RecursionError == [abn |-> None, level |-> -1]

\* df.sort_values('entity_name'): ascending by name only; rows with equal
\* names keep their row order
RECURSIVE InsertByName(_, _)
InsertByName(r, s) ==
    IF s = <<>> THEN <<r>>
    ELSE IF StrLess(r.entity_name, Head(s).entity_name) THEN <<r>> \o s
    ELSE <<Head(s)>> \o InsertByName(r, Tail(s))

RECURSIVE SortInto(_, _)
SortInto(rows, acc) ==
    IF rows = <<>> THEN acc
    ELSE SortInto(Tail(rows), InsertByName(Head(rows), acc))

sort_values(rows) == SortInto(rows, <<>>)

\* changed: the filter compares the abn column instead of parent_abn
children_of_wrong_column(df, parent_abn) ==
    SelectSeq(df, LAMBDA r : eq(r.abn, parent_abn))

\* filtered_df[filtered_df['parent_abn'] == parent_abn]
children_of(df, parent_abn) ==
    SelectSeq(df, LAMBDA r : eq(r.parent_abn, parent_abn))

\* build_tree(parent_abn, level): the lines drawn for the rows under
\* parent_abn, each followed by the lines of its own subtree
RECURSIVE build_tree(_, _, _)
RECURSIVE draw_children(_, _, _)
draw_children(filtered_df, children, level) ==
    IF children = <<>> THEN <<>>
    ELSE <<Line(Head(children), level)>>
         \o build_tree(filtered_df, Head(children).abn, level + 1)
         \o draw_children(filtered_df, Tail(children), level)

build_tree(filtered_df, parent_abn, level) ==
    IF level > RecursionLimit THEN <<RecursionError>>
    ELSE draw_children(filtered_df,
                       sort_values(children_of(filtered_df, parent_abn)),
                       level)

\* the number of calls of build_tree that build_tree(parent_abn, level)
\* makes, itself included
RECURSIVE build_tree_calls(_, _, _)
RECURSIVE child_calls(_, _, _)
child_calls(filtered_df, children, level) ==
    IF children = <<>> THEN 0
    ELSE build_tree_calls(filtered_df, Head(children).abn, level + 1)
         + child_calls(filtered_df, Tail(children), level)

build_tree_calls(filtered_df, parent_abn, level) ==
    IF level > RecursionLimit THEN 1
    ELSE 1 + child_calls(filtered_df,
                         sort_values(children_of(filtered_df, parent_abn)),
                         level)

\* the lines on the screen when the run stops at the first RecursionError
RECURSIVE drawn(_)
drawn(lines) ==
    IF lines = <<>> THEN <<>>
    ELSE IF Head(lines) = RecursionError THEN <<RecursionError>>
    ELSE <<Head(lines)>> \o drawn(Tail(lines))

raised(lines) == \E i \in DOMAIN lines : lines[i] = RecursionError

\* entities_df['status'].unique(), entities_df['entity_type'].unique()
unique_status(df) == {df[i].status : i \in DOMAIN df}

unique_type(df) == {df[i].entity_type : i \in DOMAIN df}

\* filtered_df: the rows whose status and type are among the selected ones
filtered(entities_df, status_filter, entity_type_filter) ==
    SelectSeq(entities_df, LAMBDA r : /\ r.status \in status_filter
                                      /\ r.entity_type \in entity_type_filter)

\* for _, parent in parent_entities.iterrows(): build_tree(None, 0)
RECURSIVE for_each_root(_, _)
for_each_root(df, parent_entities) ==
    IF parent_entities = <<>> THEN <<>>
    ELSE build_tree(df, None, 0) \o for_each_root(df, Tail(parent_entities))

\* the Hierarchy Tree View of one run
hierarchy_tree(entities_df, status_filter, entity_type_filter) ==
    IF entities_df = <<>> THEN <<>>
    ELSE LET filtered_df == filtered(entities_df, status_filter, entity_type_filter)
             parent_entities == SelectSeq(filtered_df, LAMBDA r : isna(r.parent_abn))
         IN  drawn(for_each_root(filtered_df, parent_entities))

\* the tree as the rerun after a write draws it, all filter values selected
default_tree(entities_df) ==
    hierarchy_tree(entities_df, unique_status(entities_df), unique_type(entities_df))

-----------------------------------------------------------------------------
(* Reports & Analytics *)

\* changed: the count filters on the entity's parent_abn, not on its abn
ReportRow_wrong_key(df, entity) ==
    [ABN |-> entity.abn,
     has_parent |-> IF notna(entity.parent_abn) THEN "Yes" ELSE "No",
     children_count |-> Len(children_of(df, entity.parent_abn))]

\* one row of hierarchy_data
ReportRow(df, entity) ==
    [ABN |-> entity.abn,
     has_parent |-> IF notna(entity.parent_abn) THEN "Yes" ELSE "No",
     children_count |-> Len(children_of(df, entity.abn))]

\* Hierarchy Breakdown: one row per entity
hierarchy_data(entities_df) ==
    [i \in DOMAIN entities_df |-> ReportRow(entities_df, entities_df[i])]

\* display_hierarchy(parent_abn, level) is build_tree over the unfiltered rows
display_hierarchy(entities_df) ==
    LET root_entities == SelectSeq(entities_df, LAMBDA r : isna(r.parent_abn))
    IN  drawn(for_each_root(entities_df, root_entities))

\* Detailed Entity Report: entities_df[abn == parent_abn].iloc[0] raises
\* IndexError when the parent row is missing
detail_raises(entities_df, entity) ==
    /\ notna(entity.parent_abn)
    /\ \A i \in DOMAIN entities_df : ~eq(entities_df[i].abn, entity.parent_abn)

-----------------------------------------------------------------------------
(* Inputs the operator may give *)

\* text typed into "ABN *" (max_chars=11): '91000000000', '91000000004',
\* '91000000011', '9100000001X', '9100000' and the empty text
AbnInputs ==
    { Abn(0), Abn(4), Abn(11), <<57,49,48,48,48,48,48,48,48,49,88>>,
      <<57,49,48,48,48,48,48>>, <<>> }

\* text typed into "Entity Name": empty, or 'Alpha Tech R&D Pty Ltd'
NameInputs == { <<>>, SampleEntities[11].entity_name }

\* choices taken in the Entity Type and Status select boxes
TypeInputs == { "Branch" }

StatusInputs == { "Inactive" }

-----------------------------------------------------------------------------
(* Operators *)

\* two browser sessions on the same SQLite file
Operators == {"A", "B"}

\* no row
NoRow == Entity(None, <<>>, None, "", "")

\* a script run of an operator between its load_data and its execute_query:
\* the handler it runs, the abn it is about, the row it will write, and the
\* entities_df it loaded; written when the execute_query has been made
Run(op, abn, row, snap, written) ==
    [op |-> op, abn |-> abn, row |-> row, snap |-> snap, written |-> written]

NoRun == Run("none", None, NoRow, <<>>, TRUE)

NoSessions == [o \in Operators |-> NoRun]

-----------------------------------------------------------------------------
(* One run of the script *)

Last(op, arg, outcome, uncaught) ==
    [op |-> op, arg |-> arg, outcome |-> outcome, uncaught |-> uncaught]

\* the run gets past insert_sample_data() and draws the selected page
ScriptReachesPage == ~insert_sample_data_raises(CurrentDB)

\* changed: the handler has already deleted the row it then refuses
Stay_after_write(db, op, arg, outcome) ==
    /\ SetDB([db EXCEPT !.legal_entities = SelectSeq(@, LAMBDA r : r.abn # arg)])
    /\ last' = Last(op, arg, outcome, FALSE)
    /\ tree_out' = <<>>
    /\ report_out' = <<>>

\* the handler wrote nothing and the run ends after drawing the page
Stay(db, op, arg, outcome) ==
    /\ SetDB(db)
    /\ last' = Last(op, arg, outcome, FALSE)
    /\ tree_out' = default_tree(db.legal_entities)
    /\ report_out' = <<>>

\* the handler wrote db and called st.rerun(): the script runs again from
\* the top, insert_sample_data() included
Rerun(db, op, arg, outcome) ==
    IF insert_sample_data_raises(db)
    THEN /\ SetDB(db)
         /\ last' = Last(op, arg, outcome, TRUE)
         /\ tree_out' = <<>>
         /\ report_out' = <<>>
    ELSE /\ SetDB(insert_sample_data(db))
         /\ last' = Last(op, arg, outcome, FALSE)
         /\ tree_out' = default_tree(insert_sample_data(db).legal_entities)
         /\ report_out' = <<>>

\* any interaction while insert_sample_data() raises: the run ends there
\* (legal_entities is empty; not reachable within MaxOps writes of the sample)
RunCrashes ==
    /\ ~ScriptReachesPage
    /\ last' = Last("run", None, "IntegrityError", TRUE)
    /\ tree_out' = <<>>
    /\ report_out' = <<>>
    /\ UNCHANGED <<legal_entities, reporting_groups, sector_codes,
                   sector_abn_mapping>>

-----------------------------------------------------------------------------
(* Legal Entity Hierarchy page *)

\* View Hierarchy tab with the two multiselect filters
ViewHierarchy(status_filter, entity_type_filter) ==
    /\ ScriptReachesPage
    /\ LET db == insert_sample_data(CurrentDB)
           entities_df == load_data(db.legal_entities)
           lines == hierarchy_tree(entities_df, status_filter, entity_type_filter)
       IN  /\ status_filter \subseteq unique_status(entities_df)
           /\ entity_type_filter \subseteq unique_type(entities_df)
           /\ SetDB(db)
           /\ last' = Last(IF status_filter = unique_status(entities_df)
                               /\ entity_type_filter = unique_type(entities_df)
                            THEN "view" ELSE "view_filtered",
                            [status |-> status_filter, type |-> entity_type_filter],
                            IF raised(lines) THEN "RecursionError" ELSE "ok",
                            raised(lines))
           /\ tree_out' = lines
    /\ report_out' = <<>>
   

\* changed: the entries are those of the sample data, not of this run's rows
parent_options_stale(entities_df) ==
    <<StrNone>> \o abn_list(SampleEntities)

\* the entries of the Parent ABN select box
parent_options(entities_df) ==
    IF entities_df # <<>> THEN <<StrNone>> \o abn_list(entities_df) ELSE <<StrNone>>

\* Add Entity tab, "Add Legal Entity" pressed
AddEntity(new_abn, new_entity_name, new_entity_type, new_parent_abn, new_status) ==
    /\ ScriptReachesPage
    /\ LET db == insert_sample_data(CurrentDB)
           entities_df == load_data(db.legal_entities)
           row == Entity(new_abn, new_entity_name,
                         IF new_parent_abn = StrNone THEN None ELSE new_parent_abn,
                         new_entity_type, new_status)
       IN  /\ new_parent_abn \in Range(parent_options(entities_df))
           /\ IF new_abn = <<>> \/ Len(new_abn) # 11
              THEN Stay(db, "add", new_abn, "invalid_abn")
              ELSE IF new_entity_name = <<>>
              THEN Stay(db, "add", new_abn, "missing_name")
              ELSE IF entities_df # <<>> /\ new_abn \in Range(abn_list(entities_df))
              THEN Stay(db, "add", new_abn, "duplicate")
              ELSE IF insert_ok(db.legal_entities, row)
              THEN Rerun([db EXCEPT !.legal_entities = Append(@, row)], "add", new_abn, "ok")
              ELSE Stay(db, "add", new_abn, "db_error")

\* entity_data = entities_df[entities_df['abn'] == selected_abn].iloc[0]
entity_data(entities_df, selected_abn) ==
    Head(SelectSeq(entities_df, LAMBDA r : eq(r.abn, selected_abn)))

\* the preselected entry of a select box: the current value if it is one
\* of the choices, else the first choice
current_choice(choices, value) ==
    IF value \in Range(choices) THEN value ELSE choices[1]

\* Edit/Delete Entity tab, "Update Entity" pressed
EditEntity(selected_abn, edit_name, edit_type, edit_status) ==
    /\ ScriptReachesPage
    /\ LET db == insert_sample_data(CurrentDB)
           entities_df == load_data(db.legal_entities)
       IN  /\ selected_abn \in Range(abn_list(entities_df))
           /\ edit_name \in {entity_data(entities_df, selected_abn).entity_name} \cup NameInputs
           /\ edit_type \in {current_choice(entity_types,
                                entity_data(entities_df, selected_abn).entity_type)}
                            \cup TypeInputs
           /\ edit_status \in {current_choice(statuses,
                                  entity_data(entities_df, selected_abn).status)}
                              \cup StatusInputs
           /\ Rerun([db EXCEPT !.legal_entities =
                        update_record(@, selected_abn, edit_name, edit_type, edit_status)],
                    "edit", selected_abn, "ok")

\* changed: the delete runs without looking for children
DeleteEntity_unchecked(selected_abn) ==
    /\ ScriptReachesPage
    /\ LET db == insert_sample_data(CurrentDB)
           entities_df == load_data(db.legal_entities)
       IN  /\ selected_abn \in Range(abn_list(entities_df))
           /\ Rerun([db EXCEPT !.legal_entities = delete_record(@, selected_abn)],
                    "delete", selected_abn, "ok")

\* Edit/Delete Entity tab, "Delete" pressed
DeleteEntity(selected_abn) ==
    /\ ScriptReachesPage
    /\ LET db == insert_sample_data(CurrentDB)
           entities_df == load_data(db.legal_entities)
           children == children_of(entities_df, selected_abn)
       IN  /\ selected_abn \in Range(abn_list(entities_df))
           /\ IF children # <<>>
              THEN Stay(db, "delete", selected_abn, "has_children")
              ELSE Rerun([db EXCEPT !.legal_entities = delete_record(@, selected_abn)],
                         "delete", selected_abn, "ok")

-----------------------------------------------------------------------------
(* Reports & Analytics page and the sidebar *)

\* the page stops at st.metric("Joint Ventures", jv_count): jv_count is
\* not defined, so every run with entities ends in NameError
ReportsPage ==
    /\ ScriptReachesPage
    /\ LET db == insert_sample_data(CurrentDB)
           entities_df == load_data(db.legal_entities)
       IN  /\ SetDB(db)
           /\ last' = IF entities_df # <<>>
                      THEN Last("reports", None, "NameError", TRUE)
                      ELSE Last("reports", None, "no_data", FALSE)
    /\ tree_out' = <<>>
    /\ report_out' = <<>>
   

\* "Reset to Sample Data": the file is removed and the rerun seeds it again
ResetToSampleData ==
    /\ ScriptReachesPage
    /\ SetDB(insert_sample_data(EmptyDB))
    /\ last' = Last("reset", None, "ok", FALSE)
    /\ tree_out' = <<>>
    /\ report_out' = <<>>
   

-----------------------------------------------------------------------------
(* The application with one operator *)

Init ==
    /\ legal_entities = insert_sample_data(EmptyDB).legal_entities
    /\ reporting_groups = insert_sample_data(EmptyDB).reporting_groups
    /\ sector_codes = insert_sample_data(EmptyDB).sector_codes
    /\ sector_abn_mapping = insert_sample_data(EmptyDB).sector_abn_mapping
    /\ last = Last("init", None, "ok", FALSE)
    /\ tree_out = <<>>
    /\ report_out = <<>>
    /\ n_ops = 0
    /\ session = NoSessions

\* the selections tried in the two multiselect filters: everything, Active
\* only, everything but JV
StatusFilterInputs ==
    { unique_status(legal_entities), unique_status(legal_entities) \cap {"Active"} }

TypeFilterInputs ==
    { unique_type(legal_entities), unique_type(legal_entities) \ {"JV"} }

\* entries tried in the Parent ABN select box
ParentInputs == { StrNone, Abn(4), Abn(11) }

\* entities tried in the Select Entity box for an update
EditSelectInputs == { Abn(4) }

\* bookkeeping of the bound: an accepted add, edit or delete is one write
Counted ==
    /\ n_ops' = n_ops + (IF last'.op \in {"add", "edit", "delete"} /\ last'.outcome = "ok"
                         THEN 1 ELSE 0)
    /\ n_ops' <= MaxOps
    /\ UNCHANGED session

Next ==
    \/ \E sf \in StatusFilterInputs, tf \in TypeFilterInputs :
          ViewHierarchy(sf, tf) /\ Counted
    \/ \E a \in AbnInputs, n \in NameInputs, t \in TypeInputs,
          p \in ParentInputs, s \in StatusInputs :
          AddEntity(a, n, t, p, s) /\ Counted
    \/ \E a \in EditSelectInputs :
          \E r \in {x \in Range(legal_entities) : x.abn = a} :
             \E n \in NameInputs \cup {r.entity_name},
                t \in TypeInputs \cup {current_choice(entity_types, r.entity_type)},
                s \in StatusInputs \cup {current_choice(statuses, r.status)} :
                EditEntity(a, n, t, s) /\ Counted
    \/ \E a \in Range(abn_list(legal_entities)) : DeleteEntity(a) /\ Counted
    \/ ReportsPage /\ Counted
    \/ ResetToSampleData /\ Counted

Spec == Init /\ [][Next]_vars

-----------------------------------------------------------------------------
(* The rendering and report functions applied to arbitrary snapshots *)

\* the snapshots: up to three rows with distinct abn, any parent_abn
\* (missing, dangling, cyclic), names 'A' and 'B', in any row order
SnapAbns == { Abn(1), Abn(2), Abn(3) }

SnapNames == { <<65>>, <<66>> }

SnapRows ==
    [abn : SnapAbns, entity_name : SnapNames, parent_abn : SnapAbns \cup {None},
     entity_type : {"Subsidiary"}, status : {"Active"}]

Snapshots ==
    { df \in UNION { [1..n -> SnapRows] : n \in 1..Cardinality(SnapAbns) } :
        \A i, j \in DOMAIN df : i # j => df[i].abn # df[j].abn }

\* build_tree(parent_abn, 0) called on its own for a parent that has a row
BuildTree(parent_abn) ==
    /\ LET entities_df == load_data(legal_entities)
           lines == drawn(build_tree(entities_df, parent_abn, 0))
       IN  /\ parent_abn \in Range(abn_list(entities_df))
           /\ last' = Last("build_tree", parent_abn,
                            IF raised(lines) THEN "RecursionError" ELSE "ok",
                            raised(lines))
           /\ tree_out' = lines
    /\ report_out' = <<>>
    /\ UNCHANGED <<legal_entities, reporting_groups, sector_codes,
                   sector_abn_mapping>>

\* report "Hierarchy Breakdown": the table and the Visual Hierarchy
HierarchyBreakdown ==
    /\ LET entities_df == load_data(legal_entities)
           lines == display_hierarchy(entities_df)
       IN  /\ entities_df # <<>>
           /\ last' = Last("breakdown", None,
                            IF raised(lines) THEN "RecursionError" ELSE "ok",
                            raised(lines))
           /\ tree_out' = lines
           /\ report_out' = hierarchy_data(entities_df)
    /\ UNCHANGED <<legal_entities, reporting_groups, sector_codes,
                   sector_abn_mapping>>

\* report "Detailed Entity Report", Hierarchy Information of the selected entity
DetailedEntityReport(selected_abn) ==
    /\ LET entities_df == load_data(legal_entities)
           entity == entity_data(entities_df, selected_abn)
       IN  /\ selected_abn \in Range(abn_list(entities_df))
           /\ IF detail_raises(entities_df, entity)
              THEN /\ last' = Last("detail", selected_abn, "IndexError", TRUE)
                   /\ report_out' = <<>>
              ELSE /\ last' = Last("detail", selected_abn, "ok", FALSE)
                   /\ report_out' = <<ReportRow(entities_df, entity)>>
    /\ tree_out' = <<>>
    /\ UNCHANGED <<legal_entities, reporting_groups, sector_codes,
                   sector_abn_mapping>>

FnInit ==
    /\ legal_entities \in Snapshots
    /\ reporting_groups = SampleGroups
    /\ sector_codes = SampleSectors
    /\ sector_abn_mapping = SampleMappings
    /\ last = Last("init", None, "ok", FALSE)
    /\ tree_out = <<>>
    /\ report_out = <<>>
    /\ n_ops = 0
    /\ session = NoSessions

FnNext ==
    \/ \E sf \in StatusFilterInputs, tf \in TypeFilterInputs :
          ViewHierarchy(sf, tf) /\ UNCHANGED <<n_ops, session>>
    \/ \E p \in SnapAbns : BuildTree(p) /\ UNCHANGED <<n_ops, session>>
    \/ HierarchyBreakdown /\ UNCHANGED <<n_ops, session>>
    \/ \E a \in SnapAbns : DetailedEntityReport(a) /\ UNCHANGED <<n_ops, session>>

FnSpec == FnInit /\ [][FnNext]_vars

-----------------------------------------------------------------------------
(* Sector Code Mappings and Reference Data pages *)

\* mapping_id = "MAP" + the first 8 characters of a uuid4: two of the
\* values the call can return
MappingIdInputs == { "MAP3F2A9C1D", "MAP7B0E4A52" }

\* choices taken in the Reporting Group, Sector Code and ABN select boxes
\* of the Add Mapping form
MappingGroupInputs == { "FIN_INT" }

MappingSectorInputs == { "R7D55" }

MappingAbnInputs == { Abn(1), Abn(4) }

\* mappings selected on the Edit/Delete Mapping tab
MappingSelectInputs == { "MAP003", "MAP3F2A9C1D" }

\* codes and names typed into the Reference Data forms: 'FIN_INT' and
\* 'F1N01' are stored already, the other two are not; the name is empty
\* or 'N'
GroupCodeInputs == { "FIN_INT", "NEW_GRP" }

SectorCodeInputs == { "F1N01", "N3W01" }

RefNameInputs == { <<>>, <<78>> }

\* INSERT INTO sector_abn_mapping through execute_query: FALSE when the
\* PRIMARY KEY raises
mapping_insert_ok(table, row) ==
    \A i \in DOMAIN table : table[i].mapping_id # row.mapping_id

\* View Mappings tab: the joined SELECT, nothing else
ViewMappings ==
    /\ ScriptReachesPage
    /\ Stay(insert_sample_data(CurrentDB), "map_view", None, "ok")

\* Add Mapping tab, "Add Mapping" pressed
AddMapping(mapping_group, mapping_sector, mapping_abn, mapping_id) ==
    /\ ScriptReachesPage
    /\ LET db == insert_sample_data(CurrentDB)
           entities_df == load_data(db.legal_entities)
           row == Mapping(mapping_id, mapping_group, mapping_sector, mapping_abn)
       IN  /\ db.reporting_groups # {} /\ db.sector_codes # {} /\ entities_df # <<>>
           /\ mapping_group \in db.reporting_groups
           /\ mapping_sector \in db.sector_codes
           /\ mapping_abn \in Range(abn_list(entities_df))
           /\ IF mapping_insert_ok(db.sector_abn_mapping, row)
              THEN Rerun([db EXCEPT !.sector_abn_mapping = Append(@, row)],
                         "map_add", mapping_abn, "ok")
              ELSE Stay(db, "map_add", mapping_abn, "db_error")

\* Edit/Delete Mapping tab, "Update" pressed: UPDATE ... SET is_active
\* WHERE mapping_id = ?
EditMapping(selected_mapping, edit_active) ==
    /\ ScriptReachesPage
    /\ LET db == insert_sample_data(CurrentDB)
           mappings_df == db.sector_abn_mapping
       IN  /\ \E i \in DOMAIN mappings_df : mappings_df[i].mapping_id = selected_mapping
           /\ Rerun([db EXCEPT !.sector_abn_mapping =
                        [i \in DOMAIN @ |->
                            IF @[i].mapping_id = selected_mapping
                            THEN [@[i] EXCEPT !.is_active = IF edit_active THEN 1 ELSE 0]
                            ELSE @[i]]],
                    "map_edit", None, "ok")

\* Edit/Delete Mapping tab, "Delete" pressed
DeleteMapping(selected_mapping) ==
    /\ ScriptReachesPage
    /\ LET db == insert_sample_data(CurrentDB)
           mappings_df == db.sector_abn_mapping
       IN  /\ \E i \in DOMAIN mappings_df : mappings_df[i].mapping_id = selected_mapping
           /\ Rerun([db EXCEPT !.sector_abn_mapping =
                        SelectSeq(@, LAMBDA r : r.mapping_id # selected_mapping)],
                    "map_delete", None, "ok")

\* Reference Data page, form add_reporting_group
AddReportingGroup(new_code, new_name) ==
    /\ ScriptReachesPage
    /\ LET db == insert_sample_data(CurrentDB)
       IN  IF new_code = "" \/ new_name = <<>>
           THEN Stay(db, "group_add", None, "missing_fields")
           ELSE IF new_code \in db.reporting_groups
           THEN Stay(db, "group_add", None, "db_error")
           ELSE Rerun([db EXCEPT !.reporting_groups = @ \cup {new_code}],
                      "group_add", None, "ok")

\* Reference Data page, form add_sector_code
AddSectorCode(new_code, new_name) ==
    /\ ScriptReachesPage
    /\ LET db == insert_sample_data(CurrentDB)
       IN  IF new_code = "" \/ new_name = <<>>
           THEN Stay(db, "sector_add", None, "missing_fields")
           ELSE IF new_code \in db.sector_codes
           THEN Stay(db, "sector_add", None, "db_error")
           ELSE Rerun([db EXCEPT !.sector_codes = @ \cup {new_code}],
                      "sector_add", None, "ok")

-----------------------------------------------------------------------------
(* The application late in its life: few entities left *)

\* the store after nine accepted deletes of the sample entities, leaves
\* first: 'Alpha Holdings Pty Ltd' and 'Alpha Technology Pty Ltd' remain,
\* the other three tables are untouched
TailInit ==
    /\ legal_entities = <<SampleEntities[1], SampleEntities[4]>>
    /\ reporting_groups = SampleGroups
    /\ sector_codes = SampleSectors
    /\ sector_abn_mapping = SampleMappings
    /\ last = Last("delete", SampleEntities[2].abn, "ok", FALSE)
    /\ tree_out = <<>>
    /\ report_out = <<>>
    /\ n_ops = 0
    /\ session = NoSessions

\* text typed into "ABN *" and entries taken in the Parent ABN select box
TailAbnInputs == { Abn(0), Abn(4) }

TailParentInputs == { StrNone, Abn(4) }

\* bookkeeping of the bound: every accepted write is counted
TailCounted ==
    /\ n_ops' = n_ops + (IF last'.outcome = "ok"
                            /\ last'.op \in {"add", "edit", "delete", "map_add",
                                             "map_edit", "map_delete", "group_add",
                                             "sector_add"}
                         THEN 1 ELSE 0)
    /\ n_ops' <= MaxOps
    /\ UNCHANGED session

TailNext ==
    \/ ViewHierarchy(unique_status(legal_entities), unique_type(legal_entities))
          /\ TailCounted
    \/ \E a \in TailAbnInputs, n \in NameInputs, t \in TypeInputs,
          p \in TailParentInputs, s \in StatusInputs :
          AddEntity(a, n, t, p, s) /\ TailCounted
    \/ \E a \in EditSelectInputs, n \in NameInputs, t \in TypeInputs, s \in StatusInputs :
          EditEntity(a, n, t, s) /\ TailCounted
    \/ \E a \in Range(abn_list(legal_entities)) : DeleteEntity(a) /\ TailCounted
    \/ ViewMappings /\ TailCounted
    \/ \E g \in MappingGroupInputs, sc \in MappingSectorInputs,
          a \in MappingAbnInputs, id \in MappingIdInputs :
          AddMapping(g, sc, a, id) /\ TailCounted
    \/ \E m \in MappingSelectInputs : EditMapping(m, FALSE) /\ TailCounted
    \/ \E m \in MappingSelectInputs : DeleteMapping(m) /\ TailCounted
    \/ \E c \in GroupCodeInputs, n \in RefNameInputs :
          AddReportingGroup(c, n) /\ TailCounted
    \/ \E c \in SectorCodeInputs, n \in RefNameInputs :
          AddSectorCode(c, n) /\ TailCounted
    \/ ReportsPage /\ TailCounted
    \/ ResetToSampleData /\ TailCounted
    \/ RunCrashes /\ TailCounted

TailSpec == TailInit /\ [][TailNext]_vars

-----------------------------------------------------------------------------
(* The application with two operators *)

\* Each operator's interaction is a script run of its own session against
\* the same file.  A run that writes first loads entities_df (load_data)
\* and later calls execute_query; runs of the other operator may come in
\* between.  A run that refuses, or only draws, is one step.

\* text typed and entries taken by the two operators
ConcAbnInputs == { Abn(0), Abn(11) }

\* 'Beta'
ConcNameInputs == { <<66,101,116,97>> }

ConcParentInputs == { Abn(0), Abn(11) }

ConcSelectInputs == { Abn(0), Abn(11) }

\* operator o has no run waiting to write
Idle(o) == session[o].written

\* the run has loaded its snapshot and goes on to its execute_query
Loaded(o, op, abn, row, snap) ==
    /\ session' = [session EXCEPT ![o] = Run(op, abn, row, snap, FALSE)]
    /\ UNCHANGED <<legal_entities, reporting_groups, sector_codes,
                   sector_abn_mapping, last, tree_out, report_out>>

\* the run is over: refused, or written
Finished(o) ==
    session' = [session EXCEPT ![o] = [@ EXCEPT !.written = TRUE]]

\* Add Entity tab, "Add Legal Entity" pressed: the run up to execute_query
AddRead(o, new_abn, new_entity_name, new_entity_type, new_parent_abn, new_status) ==
    /\ Idle(o)
    /\ ScriptReachesPage
    /\ LET db == insert_sample_data(CurrentDB)
           entities_df == load_data(db.legal_entities)
           row == Entity(new_abn, new_entity_name,
                         IF new_parent_abn = StrNone THEN None ELSE new_parent_abn,
                         new_entity_type, new_status)
       IN  /\ new_parent_abn \in Range(parent_options(entities_df))
           /\ IF new_abn = <<>> \/ Len(new_abn) # 11
              THEN Stay(db, "add", new_abn, "invalid_abn") /\ UNCHANGED session
              ELSE IF new_entity_name = <<>>
              THEN Stay(db, "add", new_abn, "missing_name") /\ UNCHANGED session
              ELSE IF entities_df # <<>> /\ new_abn \in Range(abn_list(entities_df))
              THEN Stay(db, "add", new_abn, "duplicate") /\ UNCHANGED session
              ELSE Loaded(o, "add", new_abn, row, entities_df)

\* the INSERT of that run and the rerun after it
AddWrite(o) ==
    /\ session[o].op = "add" /\ ~session[o].written
    /\ Finished(o)
    /\ IF insert_ok(legal_entities, session[o].row)
       THEN Rerun([CurrentDB EXCEPT !.legal_entities = Append(@, session[o].row)],
                  "add", session[o].abn, "ok")
       ELSE Stay(CurrentDB, "add", session[o].abn, "db_error")

\* Edit/Delete Entity tab, "Update Entity" pressed: the run up to execute_query
EditRead(o, selected_abn, edit_name, edit_type, edit_status) ==
    /\ Idle(o)
    /\ ScriptReachesPage
    /\ LET db == insert_sample_data(CurrentDB)
           entities_df == load_data(db.legal_entities)
       IN  /\ selected_abn \in Range(abn_list(entities_df))
           /\ edit_name \in {entity_data(entities_df, selected_abn).entity_name}
                            \cup ConcNameInputs
           /\ edit_type \in {current_choice(entity_types,
                                entity_data(entities_df, selected_abn).entity_type)}
           /\ edit_status \in {current_choice(statuses,
                                  entity_data(entities_df, selected_abn).status)}
                              \cup StatusInputs
           /\ Loaded(o, "edit", selected_abn,
                     [entity_data(entities_df, selected_abn)
                         EXCEPT !.entity_name = edit_name,
                                !.entity_type = edit_type,
                                !.status = edit_status],
                     entities_df)

\* changed: the UPDATE sets only the columns whose value the operator changed
EditWrite_changed_columns(o) ==
    /\ session[o].op = "edit" /\ ~session[o].written
    /\ Finished(o)
    /\ LET was == entity_data(session[o].snap, session[o].abn)
           to == session[o].row
       IN  Rerun([CurrentDB EXCEPT !.legal_entities =
                    [i \in DOMAIN @ |->
                        IF @[i].abn = session[o].abn
                        THEN [@[i] EXCEPT
                                !.entity_name = IF to.entity_name # was.entity_name
                                                THEN to.entity_name ELSE @,
                                !.entity_type = IF to.entity_type # was.entity_type
                                                THEN to.entity_type ELSE @,
                                !.status = IF to.status # was.status
                                           THEN to.status ELSE @]
                        ELSE @[i]]],
                 "edit", session[o].abn, "ok")

\* the UPDATE of that run and the rerun after it
EditWrite(o) ==
    /\ session[o].op = "edit" /\ ~session[o].written
    /\ Finished(o)
    /\ Rerun([CurrentDB EXCEPT !.legal_entities =
                 update_record(@, session[o].abn, session[o].row.entity_name,
                               session[o].row.entity_type, session[o].row.status)],
             "edit", session[o].abn, "ok")

\* Edit/Delete Entity tab, "Delete" pressed: the run up to delete_record
DeleteRead(o, selected_abn) ==
    /\ Idle(o)
    /\ ScriptReachesPage
    /\ LET db == insert_sample_data(CurrentDB)
           entities_df == load_data(db.legal_entities)
           children == children_of(entities_df, selected_abn)
       IN  /\ selected_abn \in Range(abn_list(entities_df))
           /\ IF children # <<>>
              THEN Stay(db, "delete", selected_abn, "has_children") /\ UNCHANGED session
              ELSE Loaded(o, "delete", selected_abn,
                          entity_data(entities_df, selected_abn), entities_df)

\* changed: the DELETE looks for children in the store at the time it runs
DeleteWrite_rechecked(o) ==
    /\ session[o].op = "delete" /\ ~session[o].written
    /\ Finished(o)
    /\ IF children_of(legal_entities, session[o].abn) # <<>>
       THEN Stay(CurrentDB, "delete", session[o].abn, "has_children")
       ELSE Rerun([CurrentDB EXCEPT !.legal_entities = delete_record(@, session[o].abn)],
                  "delete", session[o].abn, "ok")

\* the DELETE of that run and the rerun after it
DeleteWrite(o) ==
    /\ session[o].op = "delete" /\ ~session[o].written
    /\ Finished(o)
    /\ Rerun([CurrentDB EXCEPT !.legal_entities = delete_record(@, session[o].abn)],
             "delete", session[o].abn, "ok")

\* View Hierarchy tab of one operator, default filters
ConcView(o) ==
    /\ Idle(o)
    /\ ViewHierarchy(unique_status(legal_entities), unique_type(legal_entities))
    /\ UNCHANGED session

ConcInit ==
    /\ legal_entities = insert_sample_data(EmptyDB).legal_entities
    /\ reporting_groups = insert_sample_data(EmptyDB).reporting_groups
    /\ sector_codes = insert_sample_data(EmptyDB).sector_codes
    /\ sector_abn_mapping = insert_sample_data(EmptyDB).sector_abn_mapping
    /\ last = Last("init", None, "ok", FALSE)
    /\ tree_out = <<>>
    /\ report_out = <<>>
    /\ n_ops = 0
    /\ session = NoSessions

\* bookkeeping of the bound: a run that loads in order to write is counted
Begun == n_ops' = n_ops + (IF \E o \in Operators : session'[o] # session[o]
                                                   /\ ~session'[o].written
                           THEN 1 ELSE 0)
         /\ n_ops' <= MaxConcOps

ConcNext ==
    \E o \in Operators :
        \/ \E a \in ConcAbnInputs, n \in ConcNameInputs, t \in TypeInputs,
              p \in ConcParentInputs, s \in StatusInputs :
              AddRead(o, a, n, t, p, s) /\ Begun
        \/ AddWrite(o) /\ Begun
        \/ \E a \in ConcSelectInputs :
              \E r \in {x \in Range(legal_entities) : x.abn = a} :
                 \E n \in ConcNameInputs \cup {r.entity_name},
                    s \in StatusInputs \cup {r.status} :
                    EditRead(o, a, n, r.entity_type, s) /\ Begun
        \/ EditWrite(o) /\ Begun
        \/ \E a \in ConcSelectInputs : DeleteRead(o, a) /\ Begun
        \/ DeleteWrite(o) /\ Begun
        \/ ConcView(o) /\ Begun

ConcSpec == ConcInit /\ [][ConcNext]_vars

-----------------------------------------------------------------------------
(* Vocabulary of the properties *)

AbnSet(df) == { df[i].abn : i \in DOMAIN df }

RowOf(df, a) == CHOOSE r \in Range(df) : r.abn = a

\* positions of the rows whose parent_abn is a
DirectChildren(df, a) == { i \in DOMAIN df : df[i].parent_abn = a }

\* an ABN as the data model defines it: 11 characters, each a digit
IsDigits11(a) == Len(a) = 11 /\ \A i \in DOMAIN a : a[i] \in 48..57

\* the abns met by following parent_abn upwards from a, at most fuel steps
RECURSIVE AncestorsOf(_, _, _)
AncestorsOf(df, a, fuel) ==
    IF fuel = 0 \/ a \notin AbnSet(df) \/ RowOf(df, a).parent_abn = None THEN {}
    ELSE {RowOf(df, a).parent_abn} \cup AncestorsOf(df, RowOf(df, a).parent_abn, fuel - 1)

Ancestors(df, a) == AncestorsOf(df, a, Len(df))

Acyclic(df) == \A a \in AbnSet(df) : a \notin Ancestors(df, a)

ParentsExist(df) ==
    \A i \in DOMAIN df : df[i].parent_abn = None \/ df[i].parent_abn \in AbnSet(df)

-----------------------------------------------------------------------------
(* C1 *)

\* C1: a delete is refused exactly when some row of the snapshot has the
\* entity as parent_abn; a refused delete leaves the table as it was, and
\* an accepted one removes that entity's row and no other.
C1_DeleteIffNoChildren ==
    [][ last'.op = "delete" =>
          LET a == last'.arg
              kids == DirectChildren(legal_entities, a)
          IN  /\ a \in AbnSet(legal_entities)
              /\ (last'.outcome = "has_children") <=> (kids # {})
              /\ kids # {} => legal_entities' = legal_entities
              /\ kids = {} =>
                    /\ last'.outcome = "ok"
                    /\ legal_entities' = SelectSeq(legal_entities, LAMBDA r : r.abn # a)
      ]_vars

\* a delete of an entity with children has been refused
C1_Witness ==
    /\ last.op = "delete"
    /\ last.outcome = "has_children"
    /\ DirectChildren(legal_entities, last.arg) # {}

-----------------------------------------------------------------------------
(* C2 *)

\* C2: an add whose abn is already stored inserts nothing, and an add never
\* inserts a row whose parent_abn is set but is no stored abn: the only row
\* an add inserts has a new abn and a parent that is None or stored.
C2_AddRejectsDuplicateAndUnknownParent ==
    [][ last'.op = "add" =>
          LET a == last'.arg
              n == Len(legal_entities)
          IN  /\ a \in AbnSet(legal_entities) =>
                    (legal_entities' = legal_entities /\ last'.outcome # "ok")
              /\ legal_entities' # legal_entities =>
                    /\ Len(legal_entities') = n + 1
                    /\ SubSeq(legal_entities', 1, n) = legal_entities
                    /\ legal_entities'[n + 1].abn = a
                    /\ a \notin AbnSet(legal_entities)
                    /\ \/ legal_entities'[n + 1].parent_abn = None
                       \/ legal_entities'[n + 1].parent_abn \in AbnSet(legal_entities)
      ]_vars

\* an add with a stored abn has been refused as a duplicate
C2_Witness ==
    /\ last.op = "add"
    /\ last.outcome = "duplicate"
    /\ last.arg \in AbnSet(legal_entities)

-----------------------------------------------------------------------------
(* C3 *)

\* C3: every stored entity with a parent_abn has the abn of a stored entity
\* as its parent_abn.
C3_ReferentialIntegrity == ParentsExist(legal_entities)

\* an entity was added under a parent and a delete was accepted afterwards
C3_Witness ==
    /\ last.op = "delete"
    /\ last.outcome = "ok"
    /\ \E i \in DOMAIN legal_entities :
          /\ legal_entities[i].abn \notin AbnSet(SampleEntities)
          /\ legal_entities[i].parent_abn # None

-----------------------------------------------------------------------------
(* C4 *)

\* C4: no stored entity is its own ancestor along parent_abn.
C4_Acyclic == Acyclic(legal_entities)

\* an abn of the sample data was deleted and added again under a parent
C4_Witness ==
    /\ last.op = "add"
    /\ last.outcome = "ok"
    /\ last.arg \in AbnSet(SampleEntities)
    /\ RowOf(legal_entities, last.arg).parent_abn # None

-----------------------------------------------------------------------------
(* C5 *)

\* C5 (as claimed): the unfiltered tree view of an acyclic entity set shows
\* every entity exactly once, each after all its ancestors.
C5_Claimed ==
    (last.op = "view" /\ Acyclic(legal_entities)) =>
        /\ \A a \in AbnSet(legal_entities) :
              Cardinality({ i \in DOMAIN tree_out : tree_out[i].abn = a }) = 1
        /\ \A i \in DOMAIN tree_out :
              \A anc \in Ancestors(legal_entities, tree_out[i].abn) :
                 \E j \in 1..(i - 1) : tree_out[j].abn = anc

-----------------------------------------------------------------------------
(* C6 *)

\* ascending entity name, equal names by ascending abn
KeyBefore(r1, r2) ==
    \/ StrLess(r1.entity_name, r2.entity_name)
    \/ r1.entity_name = r2.entity_name /\ StrLess(r1.abn, r2.abn)

\* the rows of df in ascending abn order
ByAbn(df) ==
    CHOOSE s \in [DOMAIN df -> Range(df)] :
        \A i, j \in DOMAIN s : i < j => StrLess(s[i].abn, s[j].abn)

-----------------------------------------------------------------------------
(* C7 *)

\* two entities that are each other's parent
TwoCycle(df) ==
    \E i, j \in DOMAIN df :
        /\ i # j
        /\ df[i].parent_abn = df[j].abn
        /\ df[j].parent_abn = df[i].abn

\* C7 (as claimed): drawing the tree of an entity set that holds a cycle
\* X.parent = Y, Y.parent = X ends in a CycleDetected failure.
C7_Claimed ==
    (last.op \in {"view", "breakdown"} /\ TwoCycle(legal_entities)) =>
        last.outcome = "CycleDetected"

-----------------------------------------------------------------------------
(* C8 *)

\* length of the parent chain of a
Depth(df, a) == Cardinality(Ancestors(df, a))

\* C8 (as claimed): every line of the unfiltered tree view is drawn at the
\* depth of its entity, and for a root R, its child A and A's child B the
\* view is exactly R at depth 0, A at depth 1, B at depth 2.
C8_Claimed ==
    (last.op = "view" /\ Acyclic(legal_entities) /\ ParentsExist(legal_entities)) =>
        /\ \A i \in DOMAIN tree_out :
              tree_out[i].level = Depth(legal_entities, tree_out[i].abn)
        /\ \A r, a, b \in DOMAIN legal_entities :
              ( /\ Len(legal_entities) = 3
                /\ legal_entities[r].parent_abn = None
                /\ legal_entities[a].parent_abn = legal_entities[r].abn
                /\ legal_entities[b].parent_abn = legal_entities[a].abn )
              => tree_out = << [abn |-> legal_entities[r].abn, level |-> 0],
                               [abn |-> legal_entities[a].abn, level |-> 1],
                               [abn |-> legal_entities[b].abn, level |-> 2] >>

-----------------------------------------------------------------------------
(* C9 *)

-----------------------------------------------------------------------------
(* C10 *)

\* C10 (as claimed): an add whose abn is not 11 digits is refused and
\* inserts nothing.
C10_Claimed ==
    [][ (last'.op = "add" /\ ~IsDigits11(last'.arg)) =>
          (last'.outcome # "ok" /\ legal_entities' = legal_entities)
      ]_vars

-----------------------------------------------------------------------------
(* C11 *)

\* C11 (as claimed): the display name is never empty: an add with an empty
\* name is refused, and every stored entity has a non-empty entity_name.
C11_Claimed ==
    /\ \A i \in DOMAIN legal_entities : legal_entities[i].entity_name # <<>>
    /\ (last.op = "add" /\ last.outcome = "ok") =>
          RowOf(legal_entities, last.arg).entity_name # <<>>

-----------------------------------------------------------------------------
(* C12 *)

\* C12 (as claimed): no script run ends in an uncaught error; every failure
\* is shown as a message of the page.
C12_Claimed == ~last.uncaught

-----------------------------------------------------------------------------
(* C13 *)

\* C13: a refused action persists nothing: after an add refused for its abn
\* length, its empty name or its duplicate abn, and after a delete refused
\* for the entity's children, the four tables are what they were before.
C13_RejectedWritesNothing ==
    [][ ( \/ last'.op = "add" /\ last'.outcome \in {"invalid_abn", "missing_name", "duplicate"}
          \/ last'.op = "delete" /\ last'.outcome = "has_children" )
        => /\ legal_entities' = legal_entities
           /\ reporting_groups' = reporting_groups
           /\ sector_codes' = sector_codes
           /\ sector_abn_mapping' = sector_abn_mapping
      ]_vars

\* after an accepted write, a delete of an entity with children or an add
\* of a stored abn has been refused
C13_Witness ==
    /\ n_ops >= 1
    /\ \/ last.op = "delete" /\ last.outcome = "has_children"
       \/ last.op = "add" /\ last.outcome = "duplicate"
    /\ CurrentDB # insert_sample_data(EmptyDB)

-----------------------------------------------------------------------------
(* C14 *)

\* C14: an edit changes nothing but the name, type and status of the edited
\* entity: the rows keep their order, every row keeps its abn and
\* parent_abn, every other row is unchanged, and so are the mapping and
\* reference tables.
C14_EditFrame ==
    [][ last'.op = "edit" =>
          /\ Len(legal_entities') = Len(legal_entities)
          /\ \A i \in DOMAIN legal_entities :
                /\ legal_entities'[i].abn = legal_entities[i].abn
                /\ legal_entities'[i].parent_abn = legal_entities[i].parent_abn
                /\ legal_entities[i].abn # last'.arg =>
                      legal_entities'[i] = legal_entities[i]
          /\ reporting_groups' = reporting_groups
          /\ sector_codes' = sector_codes
          /\ sector_abn_mapping' = sector_abn_mapping
      ]_vars

\* an edit has changed the name, the type and the status of an entity that
\* has a parent and children
C14_Witness ==
    /\ last.op = "edit"
    /\ last.outcome = "ok"
    /\ DirectChildren(legal_entities, last.arg) # {}
    /\ \E i \in DOMAIN legal_entities :
          /\ legal_entities[i].abn = last.arg
          /\ legal_entities[i].parent_abn # None
          /\ legal_entities[i].entity_name # SampleEntities[i].entity_name
          /\ legal_entities[i].entity_type # SampleEntities[i].entity_type
          /\ legal_entities[i].status # SampleEntities[i].status

-----------------------------------------------------------------------------
(* C16 *)

\* the row passes the two multiselect filters of the view
Passes(r, f) == r.status \in f.status /\ r.entity_type \in f.type

\* C16 (as claimed): the tree view under a filter draws exactly the passing
\* entities all of whose ancestors pass; its level-0 lines are the passing
\* entities without parent.
C16_Claimed ==
    (last.op \in {"view", "view_filtered"} /\ ~last.uncaught) =>
        /\ { tree_out[i].abn : i \in DOMAIN tree_out }
              = { a \in AbnSet(legal_entities) :
                    /\ Passes(RowOf(legal_entities, a), last.arg)
                    /\ \A anc \in Ancestors(legal_entities, a) :
                          /\ anc \in AbnSet(legal_entities)
                          /\ Passes(RowOf(legal_entities, anc), last.arg) }
        /\ { tree_out[i].abn : i \in { j \in DOMAIN tree_out : tree_out[j].level = 0 } }
              = { a \in AbnSet(legal_entities) :
                    /\ Passes(RowOf(legal_entities, a), last.arg)
                    /\ RowOf(legal_entities, a).parent_abn = None }

-----------------------------------------------------------------------------
(* C20 *)

\* C20 (as claimed): the abn of every row of sector_abn_mapping is the abn
\* of a stored entity.
C20_Claimed ==
    \A i \in DOMAIN sector_abn_mapping :
        sector_abn_mapping[i].abn \in AbnSet(legal_entities)

-----------------------------------------------------------------------------
(* C15 *)

\* u is t with one row appended, with one row removed, or with at most one
\* row rewritten in place
OneRowOfSeq(t, u) ==
    \/ Len(u) = Len(t) + 1 /\ SubSeq(u, 1, Len(t)) = t
    \/ /\ Len(u) = Len(t) - 1
       /\ \E k \in DOMAIN t :
             u = [i \in 1..(Len(t) - 1) |-> IF i < k THEN t[i] ELSE t[i + 1]]
    \/ /\ Len(u) = Len(t)
       /\ Cardinality({ i \in DOMAIN t : t[i] # u[i] }) <= 1

\* u is t with one key inserted
OneRowOfSet(t, u) == \E x \in u : x \notin t /\ u = t \cup {x}

\* C15: every run of a view, add, edit or delete of an entity, a mapping or
\* a reference row writes at most one row of one table, the run that
\* st.rerun() starts after the write included; a view writes nothing.
C15_AtMostOneRowWritten ==
    [][ last'.op # "reset" =>
          /\ \/ /\ OneRowOfSeq(legal_entities, legal_entities')
                /\ UNCHANGED <<reporting_groups, sector_codes, sector_abn_mapping>>
             \/ /\ OneRowOfSeq(sector_abn_mapping, sector_abn_mapping')
                /\ UNCHANGED <<legal_entities, reporting_groups, sector_codes>>
             \/ /\ OneRowOfSet(reporting_groups, reporting_groups')
                /\ UNCHANGED <<legal_entities, sector_codes, sector_abn_mapping>>
             \/ /\ OneRowOfSet(sector_codes, sector_codes')
                /\ UNCHANGED <<legal_entities, reporting_groups, sector_abn_mapping>>
          /\ last'.op \in {"view", "view_filtered", "map_view", "reports", "run"} =>
                UNCHANGED <<legal_entities, reporting_groups, sector_codes,
                            sector_abn_mapping>>
      ]_vars

\* the last entity has been deleted: the run that followed tried to seed the
\* sample data and wrote nothing
C15_Witness ==
    /\ last.op = "delete"
    /\ last.outcome = "ok"
    /\ last.uncaught
    /\ legal_entities = <<>>
    /\ reporting_groups = SampleGroups
    /\ sector_codes = SampleSectors

-----------------------------------------------------------------------------
(* C19 *)

\* C19 (as claimed): in every reachable state a run gets as far as the
\* "Reset to Sample Data" button, and a reset leaves exactly the sample
\* data in the four tables.
C19_Claimed ==
    /\ ScriptReachesPage
    /\ last.op = "reset" => CurrentDB = insert_sample_data(EmptyDB)

-----------------------------------------------------------------------------
(* C17 *)

\* operator o's run makes its write in this step
Writes(o, op) ==
    /\ session[o].op = op
    /\ ~session[o].written
    /\ session'[o].written

\* C17: with two operators, the UPDATE of an edit run rewrites name, type
\* and status of the entity together, each with the value the run built
\* from the entities_df it loaded, whatever the store holds by then; so a
\* run that loaded before another operator's edit overwrites that edit.
C17_EditRewritesAllThree ==
    [][ \A o \in Operators :
          Writes(o, "edit") =>
             /\ Len(legal_entities') = Len(legal_entities)
             /\ \A i \in DOMAIN legal_entities :
                   legal_entities[i].abn = session[o].abn =>
                      /\ legal_entities'[i].entity_name = session[o].row.entity_name
                      /\ legal_entities'[i].entity_type = session[o].row.entity_type
                      /\ legal_entities'[i].status = session[o].row.status
      ]_vars

\* the lost update: a and b loaded the same rows; a changed the name, b only
\* the status; both have written, and the store has b's status with the
\* name as it was before a's edit
C17_Witness ==
    \E a, b \in Operators :
        /\ a # b
        /\ session[a].op = "edit" /\ session[a].written
        /\ session[b].op = "edit" /\ session[b].written
        /\ session[a].abn = session[b].abn
        /\ session[a].snap = session[b].snap
        /\ session[a].row.entity_name
              # entity_data(session[a].snap, session[a].abn).entity_name
        /\ session[b].row.entity_name
              = entity_data(session[b].snap, session[b].abn).entity_name
        /\ session[b].row.status # entity_data(session[b].snap, session[b].abn).status
        /\ session[a].abn \in AbnSet(legal_entities)
        /\ RowOf(legal_entities, session[a].abn).entity_name = session[b].row.entity_name
        /\ RowOf(legal_entities, session[a].abn).status = session[b].row.status
        /\ last.op = "edit"

-----------------------------------------------------------------------------
(* C18 *)

\* C18: with two operators, the DELETE of a delete run is made because the
\* entities_df the run loaded showed no child of the entity, and it removes
\* the entity whatever children the store holds by then; so an entity can
\* be left whose parent_abn is the abn of no stored entity, and adding the
\* deleted abn again under that entity closes a cycle.
C18_DeleteNotRechecked ==
    [][ \A o \in Operators :
          Writes(o, "delete") =>
             /\ children_of(session[o].snap, session[o].abn) = <<>>
             /\ last'.outcome = "ok"
             /\ legal_entities' = delete_record(legal_entities, session[o].abn)
      ]_vars

\* a child was added under an entity between the load and the DELETE of
\* its delete run: the delete was the last write, and a stored entity has
\* the deleted abn as parent_abn
C18_Witness ==
    /\ last.op = "delete"
    /\ last.outcome = "ok"
    /\ last.arg \notin AbnSet(legal_entities)
    /\ \E i \in DOMAIN legal_entities : legal_entities[i].parent_abn = last.arg
    /\ \E o \in Operators :
          /\ session[o].op = "delete" /\ session[o].written
          /\ session[o].abn = last.arg
          /\ children_of(session[o].snap, last.arg) = <<>>

\* the sequel: the deleted abn was added again under the entity left behind
C18_CycleClosed ==
    /\ last.op = "add"
    /\ last.outcome = "ok"
    /\ TwoCycle(legal_entities)
    /\ RowOf(legal_entities, last.arg).parent_abn # None
    /\ \E o \in Operators :
          /\ session[o].op = "delete" /\ session[o].written
          /\ session[o].abn = last.arg

-----------------------------------------------------------------------------
(* C21 *)

\* C21: the tree of the View Hierarchy tab and of the Hierarchy Breakdown
\* is drawn to the end on every entity set, cyclic or not: no run of them
\* ends in RecursionError, and one start of build_tree makes no more calls
\* than there are entities.
C21_RenderingTerminates ==
    (last.op \in {"view", "view_filtered", "breakdown"}) =>
        /\ ~last.uncaught
        /\ last.outcome = "ok"
        /\ ~raised(tree_out)
        /\ legal_entities # <<>> =>
              build_tree_calls(legal_entities, None, 0) <= Len(legal_entities)

\* the tree of a set that holds a root and a cycle of two has been drawn
C21_Witness ==
    /\ last.op \in {"view", "breakdown"}
    /\ last.outcome = "ok"
    /\ TwoCycle(legal_entities)
    /\ \E i \in DOMAIN legal_entities : legal_entities[i].parent_abn = None

====
